---- MODULE Spec2Model ----
(***************************************************************************)
(* A model of typed_dsl's graph recorder (src/dag.h): the Context scope    *)
(* stack and its RAII guard, Program (name set + IR), the IR's record log  *)
(* with dead_store_elimination and to_graph, and the Var / VarTuple / Op   *)
(* handle layer that turns assignments into IR records.                    *)
(*                                                                         *)
(* Strings are sequences of one-character strings, so that concatenation   *)
(* (op + "_" + to_string(n) + "/output") and substring search              *)
(* (var.find("__var")) are computed as the code computes them.             *)
(* Record indices are 0-based as in the code; nodes_[i] is nodes_[i + 1]   *)
(* of the TLA+ sequence.                                                   *)
(***************************************************************************)
EXTENDS Naturals, Integers, Sequences, FiniteSets, Bags, TLC

VARIABLES
  stack,        \* Context::program_stack_ : sequence of Program ids, top last
  guards,       \* the Context::Scope objects: slot -> [state, active_]
  prog,         \* Program id -> [ir_, var_names_]
  next_id,      \* IRNode::get_next_id()'s static counter
  op_counters,  \* Op::get_next_var_name()'s static map op_name -> counter
  vars,         \* the declared Var objects, as the set of their states
                \* [name_, pending_node_, has_pending_]: objects in the same state are
                \* interchangeable
  tmp,          \* the temporary Var of the expression being evaluated (<<>> or <<var>>)
  g,            \* the Graph returned by Program::graph() if that was the latest
                \* operation (<<graph>>), <<>> once something else has been done
  last          \* the operation just performed: [op, dst, src, err]

vars_all == <<stack, guards, prog, next_id, op_counters, vars, tmp, g, last>>

(***************************************************************************)
(* Bounds of the model.                                                    *)
(***************************************************************************)
MaxNodes == 3       \* records in one IR log
MaxCalls == 2       \* applications of one operator name
MaxGuards == 3      \* Context::Scope objects ever constructed

(***************************************************************************)
(* Strings.                                                                *)
(***************************************************************************)
S_var == <<"_", "_", "v", "a", "r">>
S_copy == <<"c", "o", "p", "y">>
S_output == <<"/", "o", "u", "t", "p", "u", "t">>
S_in == <<"i", "n">>
S_a == <<"a">>
S_f == <<"f">>
S_h == <<"h">>
S_b == <<"b">>
S_c == <<"c">>
S_out == <<"o", "u", "t">>
S_x1 == <<"x", "1">>
S_p1 == <<"p", "1">>
S_x2 == <<"x", "2">>
S_p2 == <<"p", "2">>
S_tvar == <<"t", "_", "_", "v", "a", "r">>

Digit(d) == <<"0", "1", "2", "3", "4", "5", "6", "7", "8", "9">>[d + 1]

RECURSIVE to_string(_)
to_string(n) == IF n < 10 THEN <<Digit(n)>>
                ELSE to_string(n \div 10) \o <<Digit(n % 10)>>

\* s.find(pat) != std::string::npos
Contains(s, pat) ==
  \E i \in 1..(Len(s) - Len(pat) + 1) : SubSeq(s, i, i + Len(pat) - 1) = pat

Range(s) == {s[i] : i \in 1..Len(s)}

(***************************************************************************)
(* Inputs the environment draws from.                                      *)
(***************************************************************************)
Programs == {1, 2}
NullProgram == 0
OpNames == {S_f}
VarNames == {S_a, S_var}
PlaceholderNames == {S_in}

(***************************************************************************)
(* Graph (the finalized artifact).                                         *)
(***************************************************************************)
EmptyGraph == [nodes_ |-> <<>>, placeholders_ |-> {}]

\* Graph::add_node: the node is named after its position in the graph.
Graph_add_node(gr, op_class, inputs, outputs, placeholder_inputs) ==
  [nodes_ |-> Append(gr.nodes_,
                     [name |-> op_class \o <<"_">> \o to_string(Len(gr.nodes_)),
                      op_class |-> op_class,
                      inputs |-> inputs,
                      outputs |-> outputs]),
   placeholders_ |-> gr.placeholders_ \cup Range(placeholder_inputs)]

Graph_is_placeholder(gr, var_name) == var_name \in gr.placeholders_

Graph_node_count(gr) == Len(gr.nodes_)

(***************************************************************************)
(* IRNode and IR.                                                          *)
(***************************************************************************)
\* IRNode::IRNode(op, ins, outs); id is the value get_next_id() returned.
IRNode(op, ins, outs, id) ==
  [type |-> "OPERATION",
   name |-> op \o <<"_">> \o to_string(id),
   op_class |-> op,
   inputs |-> ins,
   outputs |-> outs,
   is_dead |-> FALSE]

\* IRNode::create_placeholder: built through the constructor (which draws an
\* id), then retyped and renamed.
create_placeholder(name, id) ==
  [IRNode(<<>>, <<>>, <<name>>, id) EXCEPT !.type = "PLACEHOLDER", !.name = name]

\* var_to_last_def_ (an unordered_map) is a set of <<name, index>> pairs holding
\* at most one pair per name.
EmptyIR == [nodes_ |-> <<>>, var_to_last_def_ |-> {}, placeholders_ |-> {}]

LastDefKeys(ir) == {e[1] : e \in ir.var_to_last_def_}
LastDefOf(ir, v) == (CHOOSE e \in ir.var_to_last_def_ : e[1] = v)[2]

\* An insert that keeps an existing entry (std::unordered_map::insert instead
\* of operator[] assignment).
MapPut_keep_first(m, k, v) ==
  IF \E e \in m : e[1] = k THEN m ELSE m \cup {<<k, v>>}

\* var_to_last_def_[k] = v
MapPut(m, k, v) == {e \in m : e[1] # k} \cup {<<k, v>>}

RECURSIVE MapPutAll(_, _, _)
MapPutAll(m, ks, v) ==
  IF ks = <<>> THEN m ELSE MapPutAll(MapPut(m, Head(ks), v), Tail(ks), v)

\* IR::add_node
IR_add_node(ir, node) ==
  [ir EXCEPT !.var_to_last_def_ = MapPutAll(@, node.outputs, Len(ir.nodes_)),
             !.nodes_ = Append(@, node)]

\* IR::add_placeholder
IR_add_placeholder(ir, name, id) ==
  IR_add_node([ir EXCEPT !.placeholders_ = @ \cup {name}],
              create_placeholder(name, id))

(***************************************************************************)
(* IR::dead_store_elimination.  st = [ln, lv, ch] is (live_nodes,          *)
(* live_vars, changed).                                                    *)
(***************************************************************************)
\* The root selection loop over var_to_last_def_ (dag.h:173-179).
IsRootVar(ir, var) == var \in ir.placeholders_ \/ ~Contains(var, S_var)

RootState(ir) ==
  LET roots == {e \in ir.var_to_last_def_ : IsRootVar(ir, e[1])}
  IN [ln |-> {e[2] : e \in roots}, lv |-> {e[1] : e \in roots}, ch |-> FALSE]

\* A variant of the inner loop that does not consult live_vars: every defined
\* input of a live record marks its defining record and sets changed.
RECURSIVE ScanInputs_unmarked(_, _, _, _)
ScanInputs_unmarked(ir, i, k, st) ==
  LET ins == ir.nodes_[i + 1].inputs IN
  IF k > Len(ins) THEN st
  ELSE LET input == ins[k] IN
       ScanInputs_unmarked(ir, i, k + 1,
         IF input \in LastDefKeys(ir)
         THEN [ln |-> st.ln \cup {LastDefOf(ir, input)},
               lv |-> st.lv \cup {input}, ch |-> TRUE]
         ELSE [st EXCEPT !.lv = @ \cup {input}])

\* The inner loop over nodes_[i].inputs, from input k on.
RECURSIVE ScanInputs(_, _, _, _)
ScanInputs(ir, i, k, st) ==
  LET ins == ir.nodes_[i + 1].inputs IN
  IF k > Len(ins) THEN st
  ELSE LET input == ins[k] IN
       IF input \notin st.lv
       THEN ScanInputs(ir, i, k + 1,
              IF input \in LastDefKeys(ir)
              THEN [ln |-> st.ln \cup {LastDefOf(ir, input)},
                    lv |-> st.lv \cup {input}, ch |-> TRUE]
              ELSE [st EXCEPT !.lv = @ \cup {input}])
       ELSE ScanInputs(ir, i, k + 1, st)

\* One reverse pass "for (i = nodes_.size(); i-- > 0;)"; n is the number of
\* records still to visit, the next one being nodes_[n - 1].
RECURSIVE ReversePass(_, _, _)
ReversePass(ir, n, st) ==
  IF n = 0 THEN st
  ELSE ReversePass(ir, n - 1,
         IF (n - 1) \in st.ln THEN ScanInputs(ir, n - 1, 1, st) ELSE st)

\* do { changed = false; <pass> } while (changed);
RECURSIVE DoWhile(_, _)
DoWhile(ir, st) ==
  LET after == ReversePass(ir, Len(ir.nodes_), [st EXCEPT !.ch = FALSE])
  IN IF after.ch THEN DoWhile(ir, after) ELSE after

LiveNodes(ir) == DoWhile(ir, RootState(ir)).ln

dead_store_elimination(ir) ==
  LET live == LiveNodes(ir)
  IN [ir EXCEPT !.nodes_ =
        [i \in 1..Len(ir.nodes_) |->
           [ir.nodes_[i] EXCEPT !.is_dead = ((i - 1) \notin live)]]]

IR_optimize(ir) == dead_store_elimination(ir)

\* IR::get_placeholder_inputs
get_placeholder_inputs(ir, inputs) ==
  SelectSeq(inputs, LAMBDA input : input \in ir.placeholders_)

\* IR::to_graph, from record k (1-based) on, accumulating into gr.
RECURSIVE ToGraphFrom(_, _, _)
ToGraphFrom(ir, k, gr) ==
  IF k > Len(ir.nodes_) THEN gr
  ELSE LET node == ir.nodes_[k] IN
       ToGraphFrom(ir, k + 1,
         IF ~node.is_dead /\ node.type = "OPERATION"
         THEN Graph_add_node(gr, node.op_class, node.inputs, node.outputs,
                             get_placeholder_inputs(ir, node.inputs))
         ELSE gr)

IR_to_graph(ir) == ToGraphFrom(ir, 1, EmptyGraph)

(***************************************************************************)
(* Program.                                                                *)
(***************************************************************************)
EmptyProgram == [ir_ |-> EmptyIR, var_names_ |-> {}]

\* A variant of the registration check that lets every name through.
register_var_name_unchecked(P, name) == FALSE

\* Program::register_var_name: the condition under which it throws ...
register_var_name_throws(P, name) == name # S_var /\ name \in P.var_names_

\* ... and the session it leaves when it does not.
register_var_name(P, name) == [P EXCEPT !.var_names_ = @ \cup {name}]

\* Program::register_placeholder, when register_var_name did not throw.
register_placeholder(P, name, id) ==
  LET Q == register_var_name(P, name)
  IN [Q EXCEPT !.ir_ = IR_add_placeholder(@, name, id)]

\* Program::add(Var&) / Program::add(VarTuple&), given the pending node taken
\* from the handle.
Program_add(P, pending, id) ==
  [P EXCEPT !.ir_ = IR_add_node(@, IRNode(pending.op_name, pending.inputs,
                                          pending.outputs, id))]

\* Program::graph: optimize a copy of ir_ and convert the copy.
Program_graph(P) ==
  LET ir_copy == P.ir_
  IN IR_to_graph(IR_optimize(ir_copy))

\* Variants of graph() that work on the session itself: one optimizes the
\* session's IR in place, the other moves the IR out of the session.
SessionOptimizedInPlace(P) == [P EXCEPT !.ir_ = IR_optimize(@)]
SessionMovedFrom(P) == [P EXCEPT !.ir_ = EmptyIR]

\* The live session after graph() returned: graph() is const and works on
\* ir_copy, so ir_ and var_names_ are what they were.
SessionAfterGraph(P) == P

(***************************************************************************)
(* Var, VarTuple and Op (the handle layer).                                *)
(***************************************************************************)
\* A default-constructed Program::PendingNode; also the state std::move leaves
\* a PendingNode in (its string and vectors are emptied).
EmptyPending == [op_name |-> <<>>, inputs |-> <<>>, outputs |-> <<>>]

NewVar(name) == [name_ |-> name, pending_node_ |-> EmptyPending, has_pending_ |-> FALSE]


\* A variant of set_pending_node that forgets the name of the result.
Var_set_pending_node_unnamed(v, op_name, inputs) ==
  [v EXCEPT !.pending_node_ = [op_name |-> op_name, inputs |-> inputs,
                               outputs |-> <<>>],
            !.has_pending_ = TRUE]

\* Var::set_pending_node
Var_set_pending_node(v, op_name, inputs) ==
  [v EXCEPT !.pending_node_ = [op_name |-> op_name, inputs |-> inputs,
                               outputs |-> <<v.name_>>],
            !.has_pending_ = TRUE]

\* Var::take_pending_node: the handle it leaves behind (the node it returns is
\* v.pending_node_).
Var_take_pending_node(v) ==
  [v EXCEPT !.has_pending_ = FALSE, !.pending_node_ = EmptyPending]

\* Var::operator=(const Var& other), up to the call of Program::add: the
\* pending node *this holds when add(*this) is called.
CopyAssignPending(self, other) ==
  IF other.pending_node_.outputs = <<>>
  THEN [op_name |-> S_copy, inputs |-> <<other.name_>>, outputs |-> <<self.name_>>]
  ELSE [other.pending_node_ EXCEPT !.outputs = <<self.name_>>]

\* Var::operator=(Var&& other), up to the test of has_pending_.
MoveAssignPending(self, other) ==
  [other.pending_node_ EXCEPT !.outputs = <<self.name_>>]

\* VarTuple::operator=(Var<std::tuple<Ts...>>&& result): the VarTuple after the
\* assignment.  names are the names of the grouped variables.  Overload
\* resolution prefers this non-template operator to the template one for an
\* rvalue Var, so Program::add(VarTuple&) is not reached.
VarTuple_assign(names, result) ==
  [pending_node_ |-> [result.pending_node_ EXCEPT !.outputs = names],
   has_pending_ |-> TRUE]

\* Op::get_next_var_name
get_next_var_name(op_name) ==
  op_name \o <<"_">> \o to_string(op_counters[op_name]) \o S_output

(***************************************************************************)
(* Helpers of the actions.                                                 *)
(***************************************************************************)
\* Context::current_program()
current_program == stack[Len(stack)]

Replace(set, old, new) == (set \ {old}) \cup {new}

Did(op, dst, src, err) == [op |-> op, dst |-> dst, src |-> src, err |-> err]

NoErr == "none"
ErrDuplicate == "Var name already exists"

Session == prog[current_program]
NodeCount == Len(Session.ir_.nodes_)

(***************************************************************************)
(* Actions of a recording session.  Each needs an active scope, as         *)
(* Context::current_program() throws without one.                          *)
(***************************************************************************)
\* Var<T> v(name);  (name defaults to "__var").  A further unnamed variable is in
\* the state of the one already declared, so declaring it adds nothing to vars.
VarCtor(name) ==
  /\ stack # <<>>
  /\ name = S_var => NewVar(name) \notin vars
  /\ IF name # S_var /\ register_var_name_throws(Session, name)
     THEN /\ last' = Did("Var", <<name>>, <<>>, ErrDuplicate)
          /\ UNCHANGED <<prog, vars>>
     ELSE /\ prog' = [prog EXCEPT ![current_program] =
                        IF name # S_var THEN register_var_name(@, name) ELSE @]
          /\ vars' = vars \cup {NewVar(name)}
          /\ last' = Did("Var", <<name>>, <<>>, NoErr)
  /\ g' = <<>>
  /\ UNCHANGED <<stack, guards, next_id, op_counters, tmp>>

\* Var<T> v(placeholder, name);
VarPlaceholderCtor(name) ==
  /\ stack # <<>>
  /\ NodeCount < MaxNodes
  /\ IF register_var_name_throws(Session, name)
     THEN /\ last' = Did("Placeholder", <<name>>, <<>>, ErrDuplicate)
          /\ UNCHANGED <<prog, vars, next_id>>
     ELSE /\ prog' = [prog EXCEPT ![current_program] =
                        register_placeholder(@, name, next_id)]
          /\ next_id' = next_id + 1
          /\ vars' = vars \cup {NewVar(name)}
          /\ last' = Did("Placeholder", <<name>>, <<>>, NoErr)
  /\ g' = <<>>
  /\ UNCHANGED <<stack, guards, op_counters, tmp>>

\* The Var result(get_next_var_name(op_name_)) of Op::operator(): the counter
\* advances, then the Var constructor registers the generated name.
OpResult(op, input_names) ==
  Var_set_pending_node(NewVar(get_next_var_name(op)), op, input_names)

\* op(x) for a declared variable x: Op::operator()(const Var<Args>&...).
OpCall(op, x) ==
  /\ stack # <<>>
  /\ tmp = <<>>
  /\ op_counters[op] < MaxCalls
  /\ x \in vars
  /\ op_counters' = [op_counters EXCEPT ![op] = @ + 1]
  /\ LET result == OpResult(op, <<x.name_>>) IN
     IF register_var_name_throws(Session, result.name_)
     THEN /\ last' = Did("OpCall", <<result.name_>>, <<x.name_>>, ErrDuplicate)
          /\ UNCHANGED <<prog, tmp>>
     ELSE /\ prog' = [prog EXCEPT ![current_program] =
                        register_var_name(@, result.name_)]
          /\ tmp' = <<result>>
          /\ last' = Did("OpCall", <<result.name_>>, <<x.name_>>, NoErr)
  /\ g' = <<>>
  /\ UNCHANGED <<stack, guards, next_id, vars>>

\* op(<temporary>): Op::operator()(Var<R>&& input), which commits the pending
\* node of its argument.
OpCallRvalue(op) ==
  /\ stack # <<>>
  /\ tmp # <<>>
  /\ op_counters[op] < MaxCalls
  /\ NodeCount < MaxNodes
  /\ op_counters' = [op_counters EXCEPT ![op] = @ + 1]
  /\ LET input == tmp[1]
         result == OpResult(op, <<input.name_>>) IN
     IF register_var_name_throws(Session, result.name_)
     THEN /\ last' = Did("OpCallRvalue", <<result.name_>>, <<input.name_>>, ErrDuplicate)
          /\ tmp' = <<>>
          /\ UNCHANGED <<prog, next_id>>
     ELSE /\ IF input.has_pending_
             THEN /\ prog' = [prog EXCEPT ![current_program] =
                                Program_add(register_var_name(@, result.name_),
                                            input.pending_node_, next_id)]
                  /\ next_id' = next_id + 1
             ELSE /\ prog' = [prog EXCEPT ![current_program] =
                                register_var_name(@, result.name_)]
                  /\ UNCHANGED next_id
          /\ tmp' = <<result>>
          /\ last' = Did("OpCallRvalue", <<result.name_>>, <<input.name_>>, NoErr)
  /\ g' = <<>>
  /\ UNCHANGED <<stack, guards, vars>>

\* dst = op(...);  Var::operator=(Var&&) with the temporary as other.  The
\* temporary dies at the end of the statement.
MoveAssignTemp(dst) ==
  /\ stack # <<>>
  /\ tmp # <<>>
  /\ dst \in vars
  /\ NodeCount < MaxNodes
  /\ LET other == tmp[1]
         pending == MoveAssignPending(dst, other) IN
     /\ IF other.has_pending_
        THEN /\ prog' = [prog EXCEPT ![current_program] =
                           Program_add(@, pending, next_id)]
             /\ next_id' = next_id + 1
             /\ vars' = Replace(vars, dst,
                          Var_take_pending_node([dst EXCEPT !.pending_node_ = pending]))
        ELSE /\ vars' = Replace(vars, dst,
                          [dst EXCEPT !.pending_node_ = pending, !.has_pending_ = FALSE])
             /\ UNCHANGED <<prog, next_id>>
     /\ last' = Did("MoveAssignTemp", <<dst.name_>>, other.pending_node_.inputs, NoErr)
  /\ tmp' = <<>>
  /\ g' = <<>>
  /\ UNCHANGED <<stack, guards, op_counters>>

\* dst = src;  Var::operator=(const Var&).  src may be dst itself.
CopyAssignStep(dst, src) ==
  /\ stack # <<>>
  /\ tmp = <<>>
  /\ dst \in vars
  /\ src \in vars
  /\ LET pending == CopyAssignPending(dst, src) IN
     /\ prog' = [prog EXCEPT ![current_program] = Program_add(@, pending, next_id)]
     /\ next_id' = next_id + 1
     /\ vars' = Replace(vars, dst,
                  Var_take_pending_node([dst EXCEPT !.pending_node_ = pending]))
     /\ last' = Did("CopyAssign", <<dst.name_>>, <<src.name_>>, NoErr)
  /\ g' = <<>>
  /\ UNCHANGED <<stack, guards, op_counters, tmp>>

CopyAssign(dst, src) ==
  /\ NodeCount < MaxNodes
  /\ CopyAssignStep(dst, src)

\* op(...);  the result is dropped at the end of the statement; its pending
\* node was never handed to Program::add.
DiscardTemp ==
  /\ tmp # <<>>
  /\ tmp' = <<>>
  /\ last' = Did("DiscardTemp", <<>>, <<>>, NoErr)
  /\ g' = <<>>
  /\ UNCHANGED <<stack, guards, prog, next_id, op_counters, vars>>

\* (v1, v2) = op(...);  operator, builds a VarTuple of references, its
\* operator=(Var<std::tuple<...>>&&) takes the pending node of the result and
\* renames its outputs; the VarTuple and the result die with the statement.
\* For the rvalue result, overload resolution prefers this non-template
\* operator= to the template operator=(OpType&&), the only one that calls
\* Program::add.
TupleAssign(v1, v2) ==
  /\ stack # <<>>
  /\ tmp # <<>>
  /\ v1 \in vars
  /\ v2 \in vars \ {v1}
  /\ LET tuple == VarTuple_assign(<<v1.name_, v2.name_>>, tmp[1]) IN
     \* the VarTuple holds the node; nothing hands it to Program::add
     /\ tuple.has_pending_
     /\ UNCHANGED prog
  /\ last' = Did("TupleAssign", <<>>, <<>>, NoErr)
  /\ tmp' = <<>>
  /\ g' = <<>>
  /\ UNCHANGED <<stack, guards, next_id, op_counters, vars>>

\* Graph gr = prog.graph();  a call that directly follows another one is
\* recorded as "graph again".
ProgramGraph ==
  /\ stack # <<>>
  /\ tmp = <<>>
  /\ g' = <<Program_graph(Session)>>
  /\ prog' = [prog EXCEPT ![current_program] = SessionAfterGraph(@)]
  /\ last' = Did(IF g # <<>> THEN "graph again" ELSE "graph", <<>>, <<>>, NoErr)
  /\ UNCHANGED <<stack, guards, next_id, op_counters, vars, tmp>>

(***************************************************************************)
(* The recording specification: one Program inside one Context::Scope, as  *)
(* every test sets up ("Program prog; Context::Scope scope(&prog);").      *)
(***************************************************************************)
\* A guard is its active_ flag and its lifetime state.  The field entered is
\* history the class does not store: the Program whose stack entry the guard
\* accounts for, the one it pushed or took over by a move (NullProgram: none).
NoGuard == [state |-> "none", active_ |-> FALSE, entered |-> NullProgram]

Init ==
  /\ stack = <<1>>
  /\ guards = [s \in 1..MaxGuards |->
                 IF s = 1 THEN [state |-> "alive", active_ |-> TRUE, entered |-> 1]
                 ELSE NoGuard]
  /\ prog = [p \in Programs |-> EmptyProgram]
  /\ next_id = 0
  /\ op_counters = [op \in OpNames |-> 0]
  /\ vars = {}
  /\ tmp = <<>>
  /\ g = <<>>
  /\ last = Did("init", <<>>, <<>>, NoErr)

Next ==
  \/ \E name \in VarNames : VarCtor(name)
  \/ \E name \in PlaceholderNames : VarPlaceholderCtor(name)
  \/ \E op \in OpNames : \E x \in vars : OpCall(op, x)
  \/ \E op \in OpNames : OpCallRvalue(op)
  \/ \E dst \in vars : MoveAssignTemp(dst)
  \/ \E dst \in vars : \E src \in vars : CopyAssign(dst, src)
  \/ DiscardTemp
  \/ \E v1 \in vars : \E v2 \in vars : TupleAssign(v1, v2)
  \/ ProgramGraph

Spec == Init /\ [][Next]_vars_all

(***************************************************************************)
(* Context and Context::Scope.                                             *)
(***************************************************************************)
ErrNullScope == "Cannot create scope with null program"
ErrNullPush == "Cannot push null program to context"
ErrEmptyPop == "Cannot pop from empty program stack"

\* Context::push_program: when it throws, and the stack it leaves otherwise.
push_program_throws(p) == p = NullProgram
push_program(st, p) == Append(st, p)


\* A variant of pop that removes the oldest entry instead of the top one.
pop_program_bottom(st) == Tail(st)

\* Context::pop_program: when it throws, and the stack it leaves otherwise.
pop_program_throws(st) == st = <<>>
pop_program(st) == SubSeq(st, 1, Len(st) - 1)

\* The guards are constructed in slot order.
FreeSlot(s) == guards[s].state = "none" /\ \A t \in 1..(s - 1) : guards[t].state # "none"
Alive(s) == guards[s].state = "alive"

\* Context::Scope scope(p);  A constructor that throws leaves no object behind
\* (slot state "failed"): its destructor never runs.
ScopeCtor(s, p) ==
  /\ FreeSlot(s)
  /\ IF p = NullProgram \/ push_program_throws(p)
     THEN /\ guards' = [guards EXCEPT ![s] = [state |-> "failed", active_ |-> FALSE, entered |-> NullProgram]]
          /\ last' = Did("Scope", <<>>, <<>>,
                         IF p = NullProgram THEN ErrNullScope ELSE ErrNullPush)
          /\ UNCHANGED stack
     ELSE /\ stack' = push_program(stack, p)
          /\ guards' = [guards EXCEPT ![s] = [state |-> "alive", active_ |-> TRUE,
                                              entered |-> p]]
          /\ last' = Did("Scope", <<>>, <<>>, NoErr)
  /\ UNCHANGED <<prog, next_id, op_counters, vars, tmp, g>>

\* A variant of the move constructor that leaves the source guard active.
ScopeMoveCtorKeepsSource(s, other) ==
  /\ FreeSlot(s)
  /\ Alive(other)
  /\ guards' = [guards EXCEPT ![s] = [state |-> "alive", active_ |-> guards[other].active_,
                                      entered |-> guards[other].entered]]
  /\ last' = Did("Scope(Scope&&)", <<>>, <<>>, NoErr)
  /\ UNCHANGED <<stack, prog, next_id, op_counters, vars, tmp, g>>

\* Context::Scope s(std::move(other));
ScopeMoveCtor(s, other) ==
  /\ FreeSlot(s)
  /\ Alive(other)
  /\ guards' = [guards EXCEPT ![s] = [state |-> "alive", active_ |-> guards[other].active_,
                                      entered |-> guards[other].entered],
                              ![other].active_ = FALSE,
                              ![other].entered = NullProgram]
  /\ last' = Did("Scope(Scope&&)", <<>>, <<>>, NoErr)
  /\ UNCHANGED <<stack, prog, next_id, op_counters, vars, tmp, g>>

\* s = std::move(other);  other may be s itself.
ScopeMoveAssign(s, other) ==
  /\ Alive(s)
  /\ Alive(other)
  /\ IF s # other
     THEN IF guards[s].active_ /\ pop_program_throws(stack)
          THEN /\ last' = Did("Scope::operator=", <<>>, <<>>, ErrEmptyPop)
               /\ UNCHANGED <<stack, guards>>
          ELSE /\ stack' = IF guards[s].active_ THEN pop_program(stack) ELSE stack
               /\ guards' = [guards EXCEPT ![s].active_ = guards[other].active_,
                                           ![s].entered = guards[other].entered,
                                           ![other].active_ = FALSE,
                                           ![other].entered = NullProgram]
               /\ last' = Did("Scope::operator=", <<>>, <<>>, NoErr)
     ELSE /\ last' = Did("Scope::operator=", <<>>, <<>>, NoErr)
          /\ UNCHANGED <<stack, guards>>
  /\ UNCHANGED <<prog, next_id, op_counters, vars, tmp, g>>

\* Context::Scope::~Scope
ScopeDtor(s) ==
  /\ Alive(s)
  /\ IF guards[s].active_ /\ pop_program_throws(stack)
     THEN /\ last' = Did("~Scope", <<>>, <<>>, ErrEmptyPop)
          /\ UNCHANGED stack
     ELSE /\ stack' = IF guards[s].active_ THEN pop_program(stack) ELSE stack
          /\ last' = Did("~Scope", <<>>, <<>>, NoErr)
  /\ guards' = [guards EXCEPT ![s] = [state |-> "destroyed", active_ |-> guards[s].active_,
                                      entered |-> guards[s].entered]]
  /\ UNCHANGED <<prog, next_id, op_counters, vars, tmp, g>>

(***************************************************************************)
(* The scope specification: guards are constructed, moved and destroyed;   *)
(* nothing else touches the stack.                                         *)
(***************************************************************************)
InitScope ==
  /\ stack = <<>>
  /\ guards = [s \in 1..MaxGuards |-> NoGuard]
  /\ prog = [p \in Programs |-> EmptyProgram]
  /\ next_id = 0
  /\ op_counters = [op \in OpNames |-> 0]
  /\ vars = {}
  /\ tmp = <<>>
  /\ g = <<>>
  /\ last = Did("init", <<>>, <<>>, NoErr)

NextScope ==
  \/ \E s \in 1..MaxGuards : \E p \in Programs \cup {NullProgram} : ScopeCtor(s, p)
  \/ \E s \in 1..MaxGuards : \E other \in 1..MaxGuards : ScopeMoveCtor(s, other)
  \/ \E s \in 1..MaxGuards : \E other \in 1..MaxGuards : ScopeMoveAssign(s, other)
  \/ \E s \in 1..MaxGuards : ScopeDtor(s)

SpecScope == InitScope /\ [][NextScope]_vars_all


(***************************************************************************)
(* The context specification: the static functions of Context called       *)
(* directly, with a null or a real Program.                                *)
(***************************************************************************)
MaxDepth == 5

ErrNoActive == "No active program context"

\* Context::current_program: when it throws.
current_program_throws(st) == st = <<>>

\* Context::push_program(p);
ContextPush(p) ==
  /\ Len(stack) < MaxDepth
  /\ IF push_program_throws(p)
     THEN /\ last' = Did("push_program", <<>>, <<p>>, ErrNullPush)
          /\ UNCHANGED stack
     ELSE /\ stack' = push_program(stack, p)
          /\ last' = Did("push_program", <<>>, <<p>>, NoErr)
  /\ UNCHANGED <<guards, prog, next_id, op_counters, vars, tmp, g>>

\* Context::pop_program();
ContextPop ==
  /\ IF pop_program_throws(stack)
     THEN /\ last' = Did("pop_program", <<>>, <<>>, ErrEmptyPop)
          /\ UNCHANGED stack
     ELSE /\ stack' = pop_program(stack)
          /\ last' = Did("pop_program", <<>>, <<>>, NoErr)
  /\ UNCHANGED <<guards, prog, next_id, op_counters, vars, tmp, g>>

\* Program& p = Context::current_program();  dst is the Program returned.
ContextCurrent ==
  /\ IF current_program_throws(stack)
     THEN last' = Did("current_program", <<>>, <<>>, ErrNoActive)
     ELSE last' = Did("current_program", <<current_program>>, <<>>, NoErr)
  /\ UNCHANGED <<stack, guards, prog, next_id, op_counters, vars, tmp, g>>

InitContext == InitScope

NextContext ==
  \/ \E p \in Programs \cup {NullProgram} : ContextPush(p)
  \/ ContextPop
  \/ ContextCurrent

SpecContext == InitContext /\ [][NextContext]_vars_all


(***************************************************************************)
(* The explicit-names specification: a recording session whose variables   *)
(* all carry user-supplied names, one of which contains the text of the    *)
(* sentinel.                                                               *)
(***************************************************************************)
UserNames == {S_a, S_tvar}

NextNames ==
  \/ \E name \in UserNames : VarCtor(name)
  \/ \E name \in PlaceholderNames : VarPlaceholderCtor(name)
  \/ \E op \in OpNames : \E x \in vars : OpCall(op, x)
  \/ \E dst \in vars : MoveAssignTemp(dst)
  \/ \E dst \in vars : \E src \in vars : CopyAssign(dst, src)
  \/ ProgramGraph

SpecNames == Init /\ [][NextNames]_vars_all


(***************************************************************************)
(* The chain specification: a recording session with two operator classes, *)
(* whose applications nest (op(op(x))) before the result is assigned.      *)
(***************************************************************************)
ChainOps == {S_f, S_h}

InitChain ==
  /\ stack = <<1>>
  /\ guards = [s \in 1..MaxGuards |->
                 IF s = 1 THEN [state |-> "alive", active_ |-> TRUE, entered |-> 1]
                 ELSE NoGuard]
  /\ prog = [p \in Programs |-> EmptyProgram]
  /\ next_id = 0
  /\ op_counters = [op \in ChainOps |-> 0]
  /\ vars = {}
  /\ tmp = <<>>
  /\ g = <<>>
  /\ last = Did("init", <<>>, <<>>, NoErr)

NextChain ==
  \/ VarCtor(S_a)
  \/ \E name \in PlaceholderNames : VarPlaceholderCtor(name)
  \/ \E op \in ChainOps : \E x \in vars : OpCall(op, x)
  \/ \E op \in ChainOps : OpCallRvalue(op)
  \/ \E dst \in vars : MoveAssignTemp(dst)
  \/ DiscardTemp
  \/ ProgramGraph

SpecChain == InitChain /\ [][NextChain]_vars_all


(***************************************************************************)
(* The threads specification: two threads, each with its own Program,      *)
(* enter a Context::Scope, declare a variable and a placeholder, and leave *)
(* the scope.  Context::instance() is one function-local static for the    *)
(* whole process, so both threads work on the one program_stack_.  Thread  *)
(* t owns Program t and guard slot t.  A step is one call; the push of the *)
(* Scope constructor is split in two so that two pushes can overlap: the   *)
(* unsynchronized std::stack then ends up with the entry or without it.    *)
(***************************************************************************)
Threads == Programs

ThreadVarName(t) == IF t = 1 THEN S_x1 ELSE S_x2
ThreadPlaceholderName(t) == IF t = 1 THEN S_p1 ELSE S_p2

InScope(t) == Alive(t) /\ guards[t].active_

\* Context::Scope scope(&prog_t);  up to the entry of push_program.
ThreadScopeBegin(t) ==
  /\ guards[t].state = "none"
  /\ guards' = [guards EXCEPT ![t] = [state |-> "pushing", active_ |-> FALSE, entered |-> NullProgram]]
  /\ last' = Did("Scope begin", <<t>>, <<>>, NoErr)
  /\ UNCHANGED <<stack, prog, next_id, op_counters, vars, tmp, g>>

\* ... program_stack_.push(prog) and active_ = true.
ThreadScopeEnd(t) ==
  /\ guards[t].state = "pushing"
  /\ IF \E u \in Threads \ {t} : guards[u].state = "pushing"
     THEN stack' \in {push_program(stack, t), stack}
     ELSE stack' = push_program(stack, t)
  /\ guards' = [guards EXCEPT ![t] = [state |-> "alive", active_ |-> TRUE, entered |-> t]]
  /\ last' = Did("Scope", <<t>>, <<>>, NoErr)
  /\ UNCHANGED <<prog, next_id, op_counters, vars, tmp, g>>

\* Var<T> x_t("x<t>");  on thread t, inside its scope.
ThreadVarCtor(t) ==
  /\ InScope(t)
  /\ VarCtor(ThreadVarName(t))

\* Var<T> p_t(placeholder, "p<t>");  on thread t, inside its scope.
ThreadPlaceholderCtor(t) ==
  /\ InScope(t)
  /\ VarPlaceholderCtor(ThreadPlaceholderName(t))

\* thread t leaves its scope: Context::Scope::~Scope
ThreadScopeDtor(t) ==
  /\ ScopeDtor(t)

InitThreads == InitScope

NextThreads ==
  \/ \E t \in Threads : ThreadScopeBegin(t)
  \/ \E t \in Threads : ThreadScopeEnd(t)
  \/ \E t \in Threads : ThreadVarCtor(t)
  \/ \E t \in Threads : ThreadPlaceholderCtor(t)
  \/ \E t \in Threads : ThreadScopeDtor(t)

SpecThreads == InitThreads /\ [][NextThreads]_vars_all


(***************************************************************************)
(* The sessions specification: recording sessions that follow one another  *)
(* in one process, each for a fresh Program (Program p under the p-th      *)
(* scope).  A scope is entered while no other is open and left at the end  *)
(* of a statement; the static counters of Op and IRNode live on from one   *)
(* session to the next.                                                    *)
(***************************************************************************)
\* { Program prog; Context::Scope scope(&prog); ...  for a fresh Program.
SessionEnter(s, p) ==
  /\ stack = <<>>
  /\ prog[p] = EmptyProgram
  /\ ScopeCtor(s, p)

\* ... }
SessionExit(s) ==
  /\ tmp = <<>>
  /\ ScopeDtor(s)

InitSessions ==
  /\ stack = <<>>
  /\ guards = [s \in 1..MaxGuards |-> NoGuard]
  /\ prog = [p \in Programs |-> EmptyProgram]
  /\ next_id = 0
  /\ op_counters = [op \in ChainOps |-> 0]
  /\ vars = {}
  /\ tmp = <<>>
  /\ g = <<>>
  /\ last = Did("init", <<>>, <<>>, NoErr)

NextSessions ==
  \/ \E p \in Programs : SessionEnter(p, p)
  \/ \E p \in Programs : SessionExit(p)
  \/ VarCtor(S_a)
  \/ \E op \in ChainOps : \E x \in vars : OpCall(op, x)
  \/ \E op \in ChainOps : OpCallRvalue(op)
  \/ \E dst \in vars : MoveAssignTemp(dst)
  \/ ProgramGraph

SpecSessions == InitSessions /\ [][NextSessions]_vars_all


(***************************************************************************)
(* The assignment specification: a recording session with every kind of    *)
(* variable-to-variable assignment, from sources in every state a Var can  *)
(* be in.                                                                  *)
(***************************************************************************)
\* Var<T> x = op(...);  the result object becomes the variable x: it keeps the
\* generated name and the uncommitted pending node (Var(Var&&) = default).
VarFromTemp ==
  /\ stack # <<>>
  /\ tmp # <<>>
  /\ vars' = vars \cup {tmp[1]}
  /\ tmp' = <<>>
  /\ last' = Did("VarFromTemp", <<tmp[1].name_>>, tmp[1].pending_node_.inputs, NoErr)
  /\ g' = <<>>
  /\ UNCHANGED <<stack, guards, prog, next_id, op_counters>>

\* dst = std::move(src);  Var::operator=(Var&&) with a declared variable as
\* other: src keeps has_pending_ and its name, its pending node is moved out.
MoveAssignVar(dst, src) ==
  /\ stack # <<>>
  /\ tmp = <<>>
  /\ dst \in vars
  /\ src \in vars \ {dst}
  /\ NodeCount < MaxNodes
  /\ LET pending == MoveAssignPending(dst, src)
         moved == [src EXCEPT !.pending_node_ = EmptyPending] IN
     /\ IF src.has_pending_
        THEN /\ prog' = [prog EXCEPT ![current_program] =
                           Program_add(@, pending, next_id)]
             /\ next_id' = next_id + 1
             /\ vars' = (vars \ {dst, src}) \cup
                          {Var_take_pending_node([dst EXCEPT !.pending_node_ = pending]),
                           moved}
        ELSE /\ vars' = (vars \ {dst, src}) \cup
                          {[dst EXCEPT !.pending_node_ = pending, !.has_pending_ = FALSE],
                           moved}
             /\ UNCHANGED <<prog, next_id>>
     /\ last' = Did("MoveAssignVar", <<dst.name_>>, <<src.name_>>, NoErr)
  /\ g' = <<>>
  /\ UNCHANGED <<stack, guards, op_counters, tmp>>

NextCopy ==
  \/ VarCtor(S_a)
  \/ \E name \in PlaceholderNames : VarPlaceholderCtor(name)
  \/ \E op \in OpNames : \E x \in vars : OpCall(op, x)
  \/ VarFromTemp
  \/ \E dst \in vars : \E src \in vars : CopyAssign(dst, src)
  \/ \E dst \in vars : \E src \in vars : MoveAssignVar(dst, src)

SpecCopy == Init /\ [][NextCopy]_vars_all


(***************************************************************************)
(* The statements specification: a session in which a placeholder and      *)
(* three named variables are declared, recorded statement by statement     *)
(* (dst = src; and dst = op(src);), long enough for the pinned dead-code   *)
(* scenario.                                                               *)
(***************************************************************************)
MaxStmtNodes == 6
MaxStmtCalls == 3

\* dst = src;
StmtCopy(dst, src) ==
  /\ NodeCount < MaxStmtNodes
  /\ CopyAssignStep(dst, src)

\* dst = op(x);  Op::operator()(const Var&) registers the name of the result
\* and Var::operator=(Var&&) commits its pending node under the name of dst.
StmtApply(dst, op, x) ==
  /\ stack # <<>>
  /\ tmp = <<>>
  /\ dst \in vars
  /\ x \in vars
  /\ NodeCount < MaxStmtNodes
  /\ op_counters[op] < MaxStmtCalls
  /\ LET result == OpResult(op, <<x.name_>>)
         pending == MoveAssignPending(dst, result) IN
     /\ ~register_var_name_throws(Session, result.name_)
     /\ prog' = [prog EXCEPT ![current_program] =
                   Program_add(register_var_name(@, result.name_), pending, next_id)]
     /\ vars' = Replace(vars, dst,
                  Var_take_pending_node([dst EXCEPT !.pending_node_ = pending]))
     /\ last' = Did("ApplyAssign", <<dst.name_>>, <<x.name_>>, NoErr)
  /\ op_counters' = [op_counters EXCEPT ![op] = @ + 1]
  /\ next_id' = next_id + 1
  /\ g' = <<>>
  /\ UNCHANGED <<stack, guards, tmp>>

\* Program prog; Context::Scope scope(&prog);
\* Var input(placeholder, "in"); Var b("b"); Var c("c"); Var output("out");
InitStmts ==
  /\ stack = <<1>>
  /\ guards = [s \in 1..MaxGuards |->
                 IF s = 1 THEN [state |-> "alive", active_ |-> TRUE, entered |-> 1]
                 ELSE NoGuard]
  /\ prog = [p \in Programs |->
               IF p = 1
               THEN register_var_name(register_var_name(register_var_name(
                      register_placeholder(EmptyProgram, S_in, 0), S_b), S_c), S_out)
               ELSE EmptyProgram]
  /\ next_id = 1
  /\ op_counters = [op \in OpNames |-> 0]
  /\ vars = {NewVar(S_in), NewVar(S_b), NewVar(S_c), NewVar(S_out)}
  /\ tmp = <<>>
  /\ g = <<>>
  /\ last = Did("Var", <<S_out>>, <<>>, NoErr)

NextStmts ==
  \/ \E dst \in {NewVar(S_b), NewVar(S_c)} : \E src \in {NewVar(S_in), NewVar(S_c)} :
       StmtCopy(dst, src)
  \/ \E dst \in {NewVar(S_c), NewVar(S_out)} : \E op \in OpNames :
       \E x \in {NewVar(S_in), NewVar(S_c)} : StmtApply(dst, op, x)
  \/ ProgramGraph

SpecStmts == InitStmts /\ [][NextStmts]_vars_all

(***************************************************************************)
(* The unnamed-variables specification: two default-constructed variables  *)
(* a and b beside a placeholder and a named output.  Both carry the name   *)
(* "__var" and hold no pending node between statements, so one element of  *)
(* vars is the state of both; the statements keep them apart by operator:  *)
(* f is only ever applied to assign or read a, h to assign or read b.      *)
(***************************************************************************)
Unnamed == NewVar(S_var)

\* a = f(input);   b = h(input);
AssignUnnamed(op) == StmtApply(Unnamed, op, NewVar(S_in))

\* output = f(a);   output = h(b);
ReadUnnamed(op) == StmtApply(NewVar(S_out), op, Unnamed)

\* Program prog; Context::Scope scope(&prog);
\* Var input(placeholder, "in"); Var output("out"); Var a, b;
InitUnnamed ==
  /\ stack = <<1>>
  /\ guards = [s \in 1..MaxGuards |->
                 IF s = 1 THEN [state |-> "alive", active_ |-> TRUE, entered |-> 1]
                 ELSE NoGuard]
  /\ prog = [p \in Programs |->
               IF p = 1
               THEN register_var_name(register_placeholder(EmptyProgram, S_in, 0), S_out)
               ELSE EmptyProgram]
  /\ next_id = 1
  /\ op_counters = [op \in ChainOps |-> 0]
  /\ vars = {NewVar(S_in), NewVar(S_out), Unnamed}
  /\ tmp = <<>>
  /\ g = <<>>
  /\ last = Did("Var", <<S_var>>, <<>>, NoErr)

NextUnnamed ==
  \/ \E op \in ChainOps : AssignUnnamed(op)
  \/ \E op \in ChainOps : ReadUnnamed(op)
  \/ ProgramGraph

SpecUnnamed == InitUnnamed /\ [][NextUnnamed]_vars_all

(***************************************************************************)
(* The elimination specification: graph() taken pass by pass.  Statements  *)
(* copy between a placeholder, a named output and two variables whose      *)
(* names hold "__var" (so they are no roots); dead_store_elimination then  *)
(* runs on the log, one reverse pass per step.  While it runs, g holds its *)
(* locals: g = <<[pc, st]>> with st = (live_nodes, live_vars, changed).    *)
(* graph() returns before the caller's next statement, so no statement is  *)
(* recorded while pc = "running", and a loop that is running takes its     *)
(* next pass (weak fairness of DsePass).                                   *)
(***************************************************************************)
MaxDseNodes == 4

DseIdle == IF g = <<>> THEN TRUE ELSE g[1].pc = "done"
DseRunning == g # <<>> /\ g[1].pc = "running"
DseDone == g # <<>> /\ g[1].pc = "done"

\* dst = src;
DseCopy(dst, src) ==
  /\ DseIdle
  /\ NodeCount < MaxDseNodes
  /\ CopyAssignStep(dst, src)

\* The root selection of dead_store_elimination (dag.h:170-179).
DseStart ==
  /\ stack # <<>>
  /\ tmp = <<>>
  /\ DseIdle
  /\ g' = <<[pc |-> "running", st |-> RootState(Session.ir_)]>>
  /\ last' = Did("dead_store_elimination", <<>>, <<>>, NoErr)
  /\ UNCHANGED <<stack, guards, prog, next_id, op_counters, vars, tmp>>

\* One iteration of do { changed = false; <reverse pass> } while (changed);
DsePass ==
  /\ DseRunning
  /\ LET ir == Session.ir_
         after == ReversePass(ir, Len(ir.nodes_), [g[1].st EXCEPT !.ch = FALSE])
     IN g' = <<[pc |-> IF after.ch THEN "running" ELSE "done", st |-> after]>>
  /\ UNCHANGED <<stack, guards, prog, next_id, op_counters, vars, tmp, last>>

\* Program prog; Context::Scope scope(&prog);
\* Var input(placeholder, "in"); Var output("out"); Var t("t__var"); Var u;
InitDse ==
  /\ stack = <<1>>
  /\ guards = [s \in 1..MaxGuards |->
                 IF s = 1 THEN [state |-> "alive", active_ |-> TRUE, entered |-> 1]
                 ELSE NoGuard]
  /\ prog = [p \in Programs |->
               IF p = 1
               THEN register_var_name(register_var_name(
                      register_placeholder(EmptyProgram, S_in, 0), S_out), S_tvar)
               ELSE EmptyProgram]
  /\ next_id = 1
  /\ op_counters = [op \in OpNames |-> 0]
  /\ vars = {NewVar(S_in), NewVar(S_out), NewVar(S_tvar), NewVar(S_var)}
  /\ tmp = <<>>
  /\ g = <<>>
  /\ last = Did("Var", <<S_var>>, <<>>, NoErr)

NextDse ==
  \/ \E dst \in {NewVar(S_out), NewVar(S_tvar), NewVar(S_var)} :
       \E src \in {NewVar(S_in), NewVar(S_tvar), NewVar(S_var)} : DseCopy(dst, src)
  \/ DseStart
  \/ DsePass

SpecDse == InitDse /\ [][NextDse]_vars_all /\ WF_vars_all(DsePass)

(***************************************************************************)
(* Vocabulary of the claims.                                               *)
(***************************************************************************)
\* The Graph just returned by graph(), when graph() was the latest operation.
Returned == g[1]
GraphReturned == g # <<>>

\* The records of the live session, by 0-based index.
Records == Session.ir_.nodes_
RecordIdx == 0..(Len(Records) - 1)
Rec(i) == Records[i + 1]

\* Record i survives into the graph graph() returns for the current session.
InGraph(i) == i \in LiveNodes(Session.ir_) /\ Rec(i).type = "OPERATION"

\* The names the user gave to declared variables (the sentinel is no name).
ExplicitNames == {v.name_ : v \in vars} \ {S_var}

Producers(X) == {i \in RecordIdx : X \in Range(Rec(i).outputs)}
Consumers(X) == {i \in RecordIdx : X \in Range(Rec(i).inputs)}

GraphIdx(gr) == 1..Len(gr.nodes_)

(***************************************************************************)
(* C1 (liveness soundness): in every Graph returned by graph(), every      *)
(* identifier a node consumes is a placeholder of the graph or is produced *)
(* by exactly one node that appears earlier in the graph.                  *)
(* The code's dead_store_elimination resolves an input through the final   *)
(* var_to_last_def_, so a consumer can survive without its producer.       *)
(***************************************************************************)
\* Every identifier a record reads was a placeholder or had been produced by
\* an earlier record when it was read (the session reads no undefined value).
ReadsDefined ==
  \A k \in RecordIdx : \A x \in Range(Rec(k).inputs) :
    x \in Session.ir_.placeholders_ \/ \E j \in Producers(x) : j < k

\* Checked on the sessions that read only defined values: a violation there is
\* a violation of the claim, which speaks of every session.
C1_LivenessSoundness ==
  (GraphReturned /\ ReadsDefined) =>
    \A k \in GraphIdx(Returned) : \A x \in Range(Returned.nodes_[k].inputs) :
      \/ Graph_is_placeholder(Returned, x)
      \/ Cardinality({j \in 1..(k - 1) : x \in Range(Returned.nodes_[j].outputs)}) = 1

(***************************************************************************)
(* C2 (liveness minimality): in every Graph returned by graph(), every     *)
(* node produces a root identifier (a placeholder or an explicitly named   *)
(* identifier) or an identifier consumed, directly or transitively, by a   *)
(* node that does.                                                         *)
(***************************************************************************)
ProducesRoot(gr, k) ==
  \E x \in Range(gr.nodes_[k].outputs) :
    x \in Session.ir_.placeholders_ \/ x \in ExplicitNames

RECURSIVE NeededNodes(_, _)
NeededNodes(gr, U) ==
  LET more == {k \in GraphIdx(gr) :
                 \E j \in U : Range(gr.nodes_[k].outputs) \cap Range(gr.nodes_[j].inputs) # {}}
  IN IF more \subseteq U THEN U ELSE NeededNodes(gr, U \cup more)

C2_LivenessMinimality ==
  GraphReturned =>
    NeededNodes(Returned, {k \in GraphIdx(Returned) : ProducesRoot(Returned, k)})
      = GraphIdx(Returned)

(***************************************************************************)
(* C3 (placeholders are never pruned): every name registered with          *)
(* register_placeholder is a placeholder of every Graph returned           *)
(* afterwards, consumed or not.                                            *)
(***************************************************************************)
C3_PlaceholdersKept ==
  GraphReturned =>
    \A name \in Session.ir_.placeholders_ : Graph_is_placeholder(Returned, name)

(***************************************************************************)
(* C4 (uniqueness, no partial mutation): a step that registers a name (a   *)
(* Var or placeholder declaration, the result of an operator application)  *)
(* which is not the sentinel and is already in the session's name set      *)
(* fails, and the failed call leaves the name set, the placeholder set,    *)
(* the record log, the id counter and the declared variables as they were. *)
(***************************************************************************)
IsDeclaration(l) == l.op \in {"Var", "Placeholder", "OpCall", "OpCallRvalue"}

C4_UniqueNoPartialMutation ==
  [][(IsDeclaration(last') /\ last'.dst[1] # S_var
        /\ last'.dst[1] \in Session.var_names_)
       => (last'.err = ErrDuplicate /\ prog' = prog /\ vars' = vars
             /\ next_id' = next_id)]_vars_all

\* A placeholder declaration has just failed on a session that holds records.
C4_Witness ==
  last.op = "Placeholder" /\ last.err = ErrDuplicate /\ NodeCount > 0

(***************************************************************************)
(* C5 (overwrite-wins): if X is produced by record A and later by record   *)
(* B, and nothing recorded after B refers to A's value of X, the finalized *)
(* graph omits A and contains B, and every consumer of X recorded after B  *)
(* is fed by B.                                                            *)
(* Checked in a weaker form, so that a violation is one of the claim on    *)
(* any reading: X is an explicit name, no record reads A's value of X at   *)
(* all, and B is only required in the graph when a surviving record after  *)
(* B reads the value B gave to X.                                          *)
(***************************************************************************)
\* Record c reads the value record B gave to X.
ReadsValueOf(c, B, X) ==
  /\ c > B
  /\ c \in Consumers(X)
  /\ \A j \in Producers(X) : ~(B < j /\ j < c)

C5_OverwriteWins ==
  GraphReturned =>
    \A X \in ExplicitNames : \A A \in Producers(X) : \A B \in Producers(X) :
      (A < B /\ \A c \in Consumers(X) : ~(A < c /\ c <= B)) =>
        /\ ~InGraph(A)
        /\ \A c \in RecordIdx : (ReadsValueOf(c, B, X) /\ InGraph(c)) => InGraph(B)

(***************************************************************************)
(* C6 (copy propagation): a plain assignment dst = src contributes no node *)
(* to the finalized graph, and an operation that next reads dst is         *)
(* recorded as consuming the identifier src stood for (for a placeholder   *)
(* src: its own name), as in "output = input; output = add_one(output)".   *)
(***************************************************************************)
C6_CopyPropagation ==
  [][/\ last'.op = "CopyAssign" =>
          \A i \in (RecordIdx' \ RecordIdx) : ~InGraph(i)'
     /\ (last.op = "CopyAssign" /\ last.src[1] \in Session.ir_.placeholders_
           /\ last'.op = "OpCall" /\ last'.src = last.dst)
          => tmp'[1].pending_node_.inputs = last.src]_vars_all

(***************************************************************************)
(* C7 (multi-output recording): (v1, v2) = op(inputs) records exactly one  *)
(* node; it is in the finalized graph, its outputs are the names of two    *)
(* declared variables and its inputs are the operator's arguments.         *)
(***************************************************************************)
C7_MultiOutputRecorded ==
  [][last'.op = "TupleAssign" =>
       /\ Len(Records') = Len(Records) + 1
       /\ LET i == Len(Records) IN
          /\ InGraph(i)'
          /\ Rec(i)'.inputs = tmp[1].pending_node_.inputs
          /\ \E v1 \in vars : \E v2 \in vars \ {v1} :
               Rec(i)'.outputs = <<v1.name_, v2.name_>>]_vars_all

(***************************************************************************)
(* C8 (graph() has no effect on the live session): a graph() call leaves   *)
(* the record log with every liveness flag, the last-definition map, the   *)
(* placeholder set and the name set unchanged.                             *)
(***************************************************************************)
IsGraphCall(l) == l.op \in {"graph", "graph again"}

C8_GraphFrame ==
  [][IsGraphCall(last') => prog' = prog]_vars_all

\* graph() has returned for a session in which dead_store_elimination finds a
\* dead record: in-place optimization would have flagged it.
C8_Witness ==
  /\ GraphReturned
  /\ \E i \in RecordIdx : i \notin LiveNodes(Session.ir_)
  /\ \A i \in RecordIdx : ~Rec(i).is_dead

(***************************************************************************)
(* C9 (idempotent finalize): a graph() call that directly follows another  *)
(* graph() call returns the same node sequence and placeholder set.        *)
(***************************************************************************)
C9_IdempotentFinalize ==
  [][last'.op = "graph again" => g' = g]_vars_all

\* graph() was called twice in a row on a session with nodes and placeholders.
C9_Witness ==
  /\ last.op = "graph again"
  /\ Returned.nodes_ # <<>>
  /\ Returned.placeholders_ # {}

(***************************************************************************)
(* C10 (scope guards are balanced): over any sequence of Scope             *)
(* construction, move construction, move assignment and destruction, the   *)
(* stack depth equals the number of live guards that are active (so every  *)
(* push is matched by one pop, and neither a moved-from guard nor a guard  *)
(* whose construction failed accounts for a stack entry), no guard ever    *)
(* pops an empty stack, and the stack is empty once no guard is alive.     *)
(***************************************************************************)
ActiveGuards == {s \in 1..MaxGuards : Alive(s) /\ guards[s].active_}

C10_ScopesBalanced ==
  /\ Len(stack) = Cardinality(ActiveGuards)
  /\ last.err # ErrEmptyPop
  /\ (\A s \in 1..MaxGuards : ~Alive(s)) => stack = <<>>

\* Every guard has gone: one failed in construction, one was moved from and
\* then destroyed while the stack still held an entry, one popped it.
C10_Witness ==
  /\ \E s \in 1..MaxGuards : guards[s].state = "failed"
  /\ \E s \in 1..MaxGuards : guards[s].state = "destroyed" /\ ~guards[s].active_
  /\ \E s \in 1..MaxGuards : guards[s].state = "destroyed" /\ guards[s].active_
  /\ \A s \in 1..MaxGuards : ~Alive(s)
  /\ stack = <<>>

(***************************************************************************)
(* C11 (context error outcomes): push_program(null), pop_program() on an   *)
(* empty stack and current_program() on an empty stack fail, and a failing *)
(* call leaves the stack unchanged; otherwise push places the Program on   *)
(* top, pop removes exactly the top entry, and current_program() returns   *)
(* the top entry without changing the stack.                               *)
(***************************************************************************)
C11_ContextOutcomes ==
  [][/\ last'.op = "push_program" =>
          IF last'.src[1] = NullProgram
          THEN last'.err # NoErr /\ stack' = stack
          ELSE /\ last'.err = NoErr
               /\ Len(stack') = Len(stack) + 1
               /\ stack'[Len(stack')] = last'.src[1]
               /\ \A i \in 1..Len(stack) : stack'[i] = stack[i]
     /\ last'.op = "pop_program" =>
          IF stack = <<>>
          THEN last'.err # NoErr /\ stack' = stack
          ELSE /\ last'.err = NoErr
               /\ Len(stack') = Len(stack) - 1
               /\ \A i \in 1..Len(stack') : stack'[i] = stack[i]
     /\ last'.op = "current_program" =>
          /\ stack' = stack
          /\ IF stack = <<>>
             THEN last'.err # NoErr
             ELSE last'.err = NoErr /\ last'.dst = <<stack[Len(stack)]>>]_vars_all

\* pop_program() has just removed the top of a stack that held two different
\* Programs, the older one below.
C11_Witness ==
  /\ last.op = "pop_program"
  /\ last.err = NoErr
  /\ Len(stack) >= 2
  /\ stack[1] # stack[2]

(***************************************************************************)
(* C12 (explicit names are liveness roots): for every explicit identifier  *)
(* X (any user-supplied name, whatever characters it contains) that is an  *)
(* output of some operation record, the most recent operation record       *)
(* defining X is a node of the graph graph() returns, consumed or not.     *)
(***************************************************************************)
\* The records an operator application left for X (copy records set aside, so
\* that a violation does not depend on how plain assignments are recorded).
OperationProducers(X) ==
  {i \in Producers(X) : Rec(i).type = "OPERATION" /\ Rec(i).op_class # S_copy}

LastOf(I) == CHOOSE i \in I : \A j \in I : j <= i

C12_ExplicitNamesAreRoots ==
  GraphReturned =>
    \A X \in ExplicitNames :
      OperationProducers(X) # {} => InGraph(LastOf(OperationProducers(X)))

(***************************************************************************)
(* C13 (chained applications): assigning a chain of k nested operator      *)
(* applications over a placeholder input to one named variable yields a    *)
(* graph of exactly k nodes in recording order, the first consuming the    *)
(* placeholder, the last producing the named variable, and each node after *)
(* the first consuming the single internal identifier the node before it   *)
(* produced.                                                               *)
(***************************************************************************)
\* The names operator applications registered in the session.
IsGeneratedName(x) ==
  Len(x) > Len(S_output) /\ SubSeq(x, Len(x) - Len(S_output) + 1, Len(x)) = S_output

DeclaredNames == {v.name_ : v \in vars}

\* The session recorded one statement dst = op(...op(input)...) and nothing
\* else: a placeholder record, then n operation records of which only the last
\* writes a declared variable, from n applications (each registered one name),
\* the innermost one reading the placeholder.
ChainSession(n) ==
  /\ n >= 1
  /\ Len(Records) = n + 1
  /\ tmp = <<>>
  /\ Rec(0).type = "PLACEHOLDER"
  /\ \A i \in 1..n : Rec(i).type = "OPERATION" /\ Rec(i).op_class # S_copy
  /\ \A i \in 1..(n - 1) : Range(Rec(i).outputs) \cap DeclaredNames = {}
  /\ Len(Rec(n).outputs) = 1
  /\ Rec(n).outputs[1] \in ExplicitNames \ Session.ir_.placeholders_
  /\ Rec(1).inputs = Rec(0).outputs
  /\ Cardinality({x \in Session.var_names_ : IsGeneratedName(x)}) = n

ChainGraph(gr, n) ==
  /\ Len(gr.nodes_) = n
  /\ \A j \in 1..n : /\ gr.nodes_[j].op_class = Rec(j).op_class
                     /\ gr.nodes_[j].inputs = Rec(j).inputs
                     /\ gr.nodes_[j].outputs = Rec(j).outputs
  /\ Graph_is_placeholder(gr, gr.nodes_[1].inputs[1])
  /\ gr.nodes_[n].outputs = Rec(n).outputs
  /\ \A j \in 2..n : /\ Len(gr.nodes_[j].inputs) = 1
                     /\ gr.nodes_[j].inputs = gr.nodes_[j - 1].outputs
                     /\ IsGeneratedName(gr.nodes_[j].inputs[1])

C13_ChainedApplications ==
  GraphReturned =>
    \A n \in 1..MaxNodes : ChainSession(n) => ChainGraph(Returned, n)

\* graph() has returned for a = op(op(input)): two nodes joined by one internal
\* identifier.
C13_Witness ==
  /\ GraphReturned
  /\ ChainSession(2)
  /\ Len(Returned.nodes_) = 2

(***************************************************************************)
(* C15 (node ids are numbered per operator class): in a finalized graph    *)
(* the k-th (0-based) node of operator class C carries index k, whatever   *)
(* the number of nodes of other classes before it.                         *)
(***************************************************************************)
C15_IdsPerClass ==
  GraphReturned =>
    \A k \in GraphIdx(Returned) :
      LET node == Returned.nodes_[k]
          earlier == {j \in 1..(k - 1) : Returned.nodes_[j].op_class = node.op_class}
      IN node.name = node.op_class \o <<"_">> \o to_string(Cardinality(earlier))

(***************************************************************************)
(* C14 (session isolation under concurrency): when two threads each enter  *)
(* a Scope for their own Program and declare variables, then in every      *)
(* interleaving each thread's current_program() is its own Program, and    *)
(* each Program's name set and record log hold only what its own thread    *)
(* recorded.  Checked on what the Programs hold: a declaration that lands  *)
(* in the other thread's Program is made with a current_program() that is  *)
(* not the declaring thread's own.                                         *)
(***************************************************************************)
ThreadNames(t) == {ThreadVarName(t), ThreadPlaceholderName(t)}

C14_SessionIsolation ==
  \A t \in Threads :
    /\ prog[t].var_names_ \subseteq ThreadNames(t)
    /\ \A i \in 1..Len(prog[t].ir_.nodes_) :
         Range(prog[t].ir_.nodes_[i].outputs) \subseteq ThreadNames(t)

(***************************************************************************)
(* C16 (determinism across sessions): recording the same sequence of       *)
(* declarations and operator applications in two fresh Programs, one after *)
(* the other in the same process, yields graphs with identical node ids,   *)
(* inputs and outputs, the internal identifiers that connect chained       *)
(* operations included.                                                    *)
(* Checked on the sessions that consist of one statement                   *)
(* a = op_n(...op_1(a)...): what such a session holds fixes the sequence   *)
(* of calls that recorded it.                                              *)
(***************************************************************************)
ExplicitNamesOf(P) == {x \in P.var_names_ : ~IsGeneratedName(x)}

\* P recorded one statement dst = op_n(...op_1(src)...) and nothing else: n
\* operation records from n applications, only the last one writing a
\* declared variable.
ChainLog(P, n) ==
  LET nodes == P.ir_.nodes_ IN
  /\ n >= 1
  /\ Len(nodes) = n
  /\ \A i \in 1..n : nodes[i].type = "OPERATION" /\ nodes[i].op_class # S_copy
  /\ \A i \in 1..(n - 1) : Range(nodes[i].outputs) \cap ExplicitNamesOf(P) = {}
  /\ Range(nodes[n].outputs) \subseteq ExplicitNamesOf(P)
  /\ Range(nodes[1].inputs) \subseteq ExplicitNamesOf(P)
  /\ Cardinality({x \in P.var_names_ : IsGeneratedName(x)}) = n

SameRecording(P1, P2) ==
  \E n \in 1..MaxNodes :
    /\ ChainLog(P1, n)
    /\ ChainLog(P2, n)
    /\ ExplicitNamesOf(P1) = ExplicitNamesOf(P2)
    /\ P1.ir_.nodes_[1].inputs = P2.ir_.nodes_[1].inputs
    /\ P1.ir_.nodes_[n].outputs = P2.ir_.nodes_[n].outputs
    /\ \A i \in 1..n : P1.ir_.nodes_[i].op_class = P2.ir_.nodes_[i].op_class

C16_DeterminismAcrossSessions ==
  (GraphReturned /\ stack = <<2>> /\ SameRecording(prog[1], prog[2]))
    => Returned = Program_graph(prog[1])

(***************************************************************************)
(* C17 (uniform copy strategy): every plain assignment dst = src is        *)
(* recorded with one and the same strategy, either always no record or     *)
(* always one identity record, whether src is a placeholder, a committed   *)
(* variable or a variable holding an uncommitted result, and whether it is *)
(* assigned by copy or by move.                                            *)
(* Checked as: once the log holds an identity record (the strategy the     *)
(* session has used), a plain assignment appends exactly one identity      *)
(* record from src to dst.                                                 *)
(***************************************************************************)
IsPlainAssignment(l) == l.op \in {"CopyAssign", "MoveAssignVar"}

IsIdentityRecord(r, dst, src) ==
  r.type = "OPERATION" /\ r.op_class = S_copy /\ r.inputs = src /\ r.outputs = dst

C17_UniformCopyStrategy ==
  [][(IsPlainAssignment(last') /\ \E i \in RecordIdx : Rec(i).op_class = S_copy)
       => /\ Len(Records') = Len(Records) + 1
          /\ IsIdentityRecord(Records'[Len(Records')], last'.dst, last'.src)]_vars_all

(***************************************************************************)
(* C18 (pinned dead-code scenario): with placeholder input and explicitly  *)
(* named b, c and output, recording c = input; c = add_one(c);             *)
(* c = add_one(c); b = c; output = add_one(input) yields a finalized graph *)
(* of exactly 4 nodes.                                                     *)
(***************************************************************************)
\* What the five statements leave in the log after the placeholder record.
PinnedLog ==
  << <<S_copy, <<S_in>>, <<S_c>> >>,
     <<S_f, <<S_c>>, <<S_c>> >>,
     <<S_f, <<S_c>>, <<S_c>> >>,
     <<S_copy, <<S_c>>, <<S_b>> >>,
     <<S_f, <<S_in>>, <<S_out>> >> >>

PinnedScenarioRecorded ==
  /\ Len(Records) = Len(PinnedLog) + 1
  /\ \A i \in 1..Len(PinnedLog) :
       <<Rec(i).op_class, Rec(i).inputs, Rec(i).outputs>> = PinnedLog[i]

C18_PinnedDeadCodeScenario ==
  (GraphReturned /\ PinnedScenarioRecorded) => Graph_node_count(Returned) = 4

(***************************************************************************)
(* C19 (DCE resolves an input to the definition in force when it was       *)
(* read): when a live record at index i consumes identifier x, the record  *)
(* dead-code elimination marks live for x is the nearest prior record      *)
(* (greatest index less than i) whose outputs contain x.                   *)
(***************************************************************************)
PriorProducers(x, i) == {j \in Producers(x) : j < i}

\* Stated for the inputs whose nearest prior definition is an operation record:
\* that record must be among the live ones.  Checked on the sessions that read
\* only defined values.
C19_NearestPriorDefinition ==
  (GraphReturned /\ ReadsDefined) =>
    \A i \in LiveNodes(Session.ir_) : \A x \in Range(Rec(i).inputs) :
      (/\ PriorProducers(x, i) # {}
       /\ Rec(LastOf(PriorProducers(x, i))).type = "OPERATION")
        => LastOf(PriorProducers(x, i)) \in LiveNodes(Session.ir_)

(***************************************************************************)
(* C20 (last_def invariant): after any sequence of IR::add_node and        *)
(* IR::add_placeholder calls, for every identifier that is a key of the    *)
(* last-definition map, the mapped index is a valid record index, that     *)
(* record's outputs contain the identifier, and no record with a greater   *)
(* index has the identifier among its outputs.                             *)
(***************************************************************************)
C20_LastDefInvariant ==
  \A p \in Programs :
    LET ir == prog[p].ir_
    IN \A e \in ir.var_to_last_def_ :
         /\ e[2] \in 0..(Len(ir.nodes_) - 1)
         /\ e[1] \in Range(ir.nodes_[e[2] + 1].outputs)
         /\ \A j \in (e[2] + 2)..Len(ir.nodes_) :
              e[1] \notin Range(ir.nodes_[j].outputs)

\* An identifier has been defined by two records, the later one an operation
\* record, and the map points at the later one.
C20_Witness ==
  \E X \in LastDefKeys(Session.ir_) :
    /\ Cardinality(Producers(X)) >= 2
    /\ LastDefOf(Session.ir_, X) = LastOf(Producers(X))
    /\ Rec(LastOf(Producers(X))).op_class = S_f

(***************************************************************************)
(* C21 (a guard releases its own Program): whenever a Context::Scope gives *)
(* up a scope (by its destructor, or by being overwritten in a             *)
(* move-assignment), the entry removed from the stack is the Program that  *)
(* this guard pushed or acquired by move, so while a guard is active the   *)
(* Program it guards is still on the stack and current_program() is the    *)
(* Program of a scope that is still active.                                *)
(***************************************************************************)
C21_GuardReleasesOwnProgram ==
  /\ \A s \in ActiveGuards : guards[s].entered \in Range(stack)
  /\ stack # <<>> => \E s \in ActiveGuards : guards[s].entered = current_program

(***************************************************************************)
(* C22 (distinct unnamed variables are distinct values): an operation that *)
(* reads unnamed variable a is fed in the finalized graph by the most      *)
(* recent producer of a, never by the producer of a different unnamed      *)
(* variable b that was assigned after a.                                   *)
(***************************************************************************)
\* Under SpecUnnamed a record of class op that writes "__var" assigns the
\* variable of op, and one that reads "__var" reads the variable of op.
AssignsUnnamed(r, op) == r.op_class = op /\ S_var \in Range(r.outputs)
ReadsUnnamed(r, op) == r.op_class = op /\ S_var \in Range(r.inputs)

\* Every read of an unnamed variable comes after an assignment to it.
UnnamedReadsAssigned ==
  \A i \in RecordIdx : \A op \in ChainOps :
    ReadsUnnamed(Rec(i), op) => \E j \in 0..(i - 1) : AssignsUnnamed(Rec(j), op)

C22_UnnamedVariablesDistinct ==
  (GraphReturned /\ UnnamedReadsAssigned) =>
    \A k \in GraphIdx(Returned) : \A op \in ChainOps :
      ReadsUnnamed(Returned.nodes_[k], op) =>
        LET feeders == {j \in 1..(k - 1) : S_var \in Range(Returned.nodes_[j].outputs)}
        IN /\ feeders # {}
           /\ AssignsUnnamed(Returned.nodes_[LastOf(feeders)], op)

(***************************************************************************)
(* C23 (record ids are unique and stable): within one Graph no two nodes   *)
(* share an id, and a record that survives in two Graphs returned by       *)
(* graph() at different points of the same session carries the same node   *)
(* id in both, whatever was recorded or became dead in between.            *)
(***************************************************************************)
\* Record i of session P survives into the graph of P; to_graph emits the
\* survivors in log order, so its node is the one at the rank of i among them.
SurvivesIn(P, i) == i \in LiveNodes(P.ir_) /\ P.ir_.nodes_[i + 1].type = "OPERATION"
NodeIdIn(P, i) ==
  Program_graph(P).nodes_[Cardinality({j \in 0..i : SurvivesIn(P, j)})].name

UniqueIds(gr) ==
  \A j, k \in GraphIdx(gr) : gr.nodes_[j].name = gr.nodes_[k].name => j = k

\* Every record of P reads placeholders and identifiers whose producers all
\* precede it, so that the final and the nearest prior definition coincide.
ReadsSettled(P) ==
  \A k \in 1..Len(P.ir_.nodes_) : \A x \in Range(P.ir_.nodes_[k].inputs) :
    /\ \E j \in 1..(k - 1) : x \in Range(P.ir_.nodes_[j].outputs)
    /\ \A j \in k..Len(P.ir_.nodes_) : x \notin Range(P.ir_.nodes_[j].outputs)

\* Compared are the graph graph() has just returned and the one it returns
\* after the next recorded statement, on sessions whose reads are settled.
C23_IdsUniqueAndStable ==
  [][(GraphReturned /\ ReadsSettled(Session')) =>
       /\ UniqueIds(Returned)
       /\ \A i \in RecordIdx :
            (SurvivesIn(Session, i) /\ SurvivesIn(Session', i))
              => NodeIdIn(Session, i) = NodeIdIn(Session', i)]_vars_all

(***************************************************************************)
(* C24 (DCE terminates): for every finite record log, including logs where *)
(* a record consumes an identifier it also produces or one defined only by *)
(* a later record, the repeated reverse-pass loop of                       *)
(* dead_store_elimination reaches a pass that adds nothing and stops, and  *)
(* at that point the live set is closed (every input of a live record that *)
(* has an entry in the last-definition map has its defining record live).  *)
(***************************************************************************)
DseClosed ==
  \A i \in g[1].st.ln : \A x \in Range(Rec(i).inputs) :
    x \in LastDefKeys(Session.ir_) => LastDefOf(Session.ir_, x) \in g[1].st.ln

C24_DseTerminates ==
  DseRunning ~> (DseDone /\ ~g[1].st.ch /\ DseClosed)

\* The loop has stopped on a log where a live record consumes an identifier it
\* also produces and a live record consumes one defined only by a later record,
\* which took a further pass to reach.
C24_Witness ==
  /\ DseDone
  /\ \E i \in g[1].st.ln : Range(Rec(i).inputs) \cap Range(Rec(i).outputs) # {}
  /\ \E i \in g[1].st.ln : \E x \in Range(Rec(i).inputs) :
       /\ ~IsRootVar(Session.ir_, x)
       /\ Producers(x) # {}
       /\ \A j \in Producers(x) : j > i

====
